---- MODULE Spec2Model ----
(***************************************************************************)
(* Model of the recipe client (my-recipe-app/src/App.js) and of the        *)
(* row-level-security policies of setup_supabase.sql.                      *)
(*                                                                         *)
(* Spec        the React component App: state, handlers, requests in       *)
(*             flight and their completions.                               *)
(* ParseSpec   the comma-split / trim / filter of the free-text fields.    *)
(* RenderSpec  the render-time computations of the dashboard panel.        *)
(* RlsSpec     the tables and policies of the SQL schema.                  *)
(***************************************************************************)
EXTENDS Integers, Sequences, FiniteSets, Bags, TLC

\* ------------------------------------------------------------------ bounds
MaxActs == 1
MaxLen == 4
MaxItems == 2
MaxCount == 2
MaxDay == 2
NumUsers == 2
MaxRows == 3

\* ------------------------------------------------------- JavaScript values
\* A JavaScript value is a pair <<type, representation>>.
JNull == <<"null", "">>
JUndef == <<"undefined", "">>
JStr(s) == <<"string", s>>
JNum(s) == <<"number", s>>

\* ToBoolean: null, undefined, '' and 0 are falsy.
Truthy(v) ==
    CASE v[1] = "null" -> FALSE
      [] v[1] = "undefined" -> FALSE
      [] v[1] = "string" -> v[2] # ""
      [] v[1] = "number" -> v[2] # "0"

\* ToString, as localStorage.setItem applies it to the value it stores.
JsString(v) ==
    CASE v[1] = "null" -> JStr("null")
      [] v[1] = "undefined" -> JStr("undefined")
      [] v[1] = "string" -> v
      [] v[1] = "number" -> JStr(v[2])

\* a || b
Or(a, b) == IF Truthy(a) THEN a ELSE b

\* ------------------------------------------------------------------- state
VARIABLES
    localStorage,        \* key -> stored string, JNull when the key is absent
    isLoggedIn, token, userId, message, currentView,
    ingredients, recommendedRecipes, allergies, preferences, isLoading,
    dashboardStats,
    inflight,            \* bag of the requests issued by fetch and not yet settled
    effectPending,       \* the [token, userId] effect is scheduled
    effectAct,           \* the action whose state change scheduled it
    uncaught,            \* an exception left callApi uncaught
    now, rendered,       \* RenderSpec: the clock and the last render
    db                   \* RlsSpec: the rows of each table

clientVars == <<localStorage, isLoggedIn, token, userId, message, currentView,
                ingredients, recommendedRecipes, isLoading,
                dashboardStats, inflight, effectPending, effectAct, uncaught>>
formVars == <<allergies, preferences>>
renderVars == <<now, rendered>>
rlsVars == <<db>>
vars == <<clientVars, formVars, renderVars, rlsVars>>

Views == {"login", "register", "dashboard", "addIngredient", "recommend"}

\* The switch of renderView without the register panel.
renderViewFour(v) ==
    CASE v = "login" -> "login panel"
      [] v = "dashboard" -> "dashboard panel"
      [] v = "addIngredient" -> "add-ingredient panel"
      [] v = "recommend" -> "recommend panel"
      [] OTHER -> "null"

\* renderView: the panel the switch on currentView returns, null by default.
renderView(v) ==
    CASE v = "login" -> "login panel"
      [] v = "register" -> "register panel"
      [] v = "dashboard" -> "dashboard panel"
      [] v = "addIngredient" -> "add-ingredient panel"
      [] v = "recommend" -> "recommend panel"
      [] OTHER -> "null"

\* Every call sent as a POST.
MethodPost(r) == "POST"

\* ------------------------------------------------------ requests in flight
\* One record per fetch that has been issued and has not settled.  tok is the
\* token of the closure that made the call, act the action that caused it.
Request(op, tok, act, arg) == [op |-> op, tok |-> tok, act |-> act, arg |-> arg]

Endpoint(r) ==
    CASE r.op = "handleRegister" -> <<"/register">>
      [] r.op = "handleLogin" -> <<"/login">>
      [] r.op = "fetchUserIngredients" -> <<"/user_ingredients">>
      [] r.op = "handleAddIngredient" -> <<"/user_ingredients">>
      [] r.op = "handleDeleteIngredient" -> <<"/user_ingredients/", r.arg.id>>
      [] r.op = "handleRecommendRecipes" -> <<"/recommend_recipes">>
      [] r.op = "handleSmartSuggestions" -> <<"/smart-ingredient-suggestions">>
      [] r.op = "fetchDashboardStats" -> <<"/dashboard-stats">>
      [] r.op = "generateChartAnalysis" -> <<"/generate-chart-description">>
      [] r.op = "analyzeNutrition" -> <<"/analyze-nutrition">>
      [] r.op = "generateMealPlan" -> <<"/generate-meal-plan">>
      [] r.op = "analyzePrices" -> <<"/price-analysis">>

Method(r) ==
    CASE r.op \in {"fetchUserIngredients", "fetchDashboardStats", "analyzePrices"} -> "GET"
      [] r.op = "handleDeleteIngredient" -> "DELETE"
      [] OTHER -> "POST"

\* headers['Authorization'], set only for a truthy token.
Authorization(r) == IF Truthy(r.tok) THEN <<"Bearer ", r.tok[2]>> ELSE <<>>

Remove(q, r) == q (-) SetToBag({r})

ActsOf(q) == {r.act : r \in BagToSet(q)}
Mount == 0
\* At most MaxActs actions have requests outstanding at a time; a new action
\* takes the least identifier no outstanding request carries.
Room == Cardinality(ActsOf(inflight)) < MaxActs
FreshAct == CHOOSE a \in 1..MaxActs :
                /\ a \notin ActsOf(inflight)
                /\ \A b \in 1..(a - 1) : b \in ActsOf(inflight)

\* ----------------------------------------------------------------- callApi
\* The synchronous part of callApi up to the await of fetch: the message is
\* cleared, the loading flag raised and one fetch issued.
callApi(q, op, tok, act, arg) == q (+) SetToBag({Request(op, tok, act, arg)})

\* What a fetch can settle to without delivering a body that parses.
FailKinds == {"reject_fetch", "reject_other", "status0", "http_error",
              "http_badjson", "ok_badjson"}

\* The exception the try block raises for each failure.
Thrown(f) ==
    CASE f = "reject_fetch" -> [name |-> "TypeError", message |-> "Failed to fetch"]
      [] f = "reject_other" -> [name |-> "TypeError", message |-> "Load failed"]
      [] f = "status0" -> [name |-> "Error", message |-> "cannot connect to the server; check that the Flask server runs"]
      [] f = "http_error" -> [name |-> "Error", message |-> "data.error || data.message || HTTP status"]
      [] f = "http_badjson" -> [name |-> "SyntaxError", message |-> "Unexpected token"]
      [] f = "ok_badjson" -> [name |-> "SyntaxError", message |-> "Unexpected token"]

\* error.message.includes('fetch')
IncludesFetch(m) == m \in {"Failed to fetch"}

\* The catch block with the prefix left off the generic text.
CatchBare(error) ==
    [message |-> IF error.name = "TypeError" /\ IncludesFetch(error.message)
                 THEN <<"Oryu: ", "cannot connect to the server; check that the Flask server (http://127.0.0.1:5000) runs">>
                 ELSE <<"${error.message}">>,
     ret |-> JNull,
     threw |-> FALSE]

\* The catch block: the message it sets, the value callApi returns and
\* whether anything leaves callApi as an exception.
Catch(error) ==
    [message |-> IF error.name = "TypeError" /\ IncludesFetch(error.message)
                 THEN <<"Oryu: ", "cannot connect to the server; check that the Flask server (http://127.0.0.1:5000) runs">>
                 ELSE <<"Oryu: ", "${error.message}">>,
     ret |-> JNull,
     threw |-> FALSE]

\* message.startsWith(ERR), ERR the two-syllable Korean word for "error" that
\* the catch block puts in front of its texts; it is written "Oryu" here.
StartsWithError(m) == m # <<>> /\ m[1] \in {"Oryu: ", "Oryu"}

\* A failed call issued again.
AfterFailureRetry(q, r) == q

\* The requests in flight once call r has failed: callApi returned null and
\* every handler stops at its "if (data)".
AfterFailure(q, r) == Remove(q, r)

Tables == {"profiles", "ingredients", "recipes", "meal_plans", "shopping_list"}

\* ------------------------------------------------------------ backend data
\* The bodies the backend is modelled to answer with.
Tokens == {JStr("t1"), JStr("t2")}
LoginData == [token : Tokens \cup {JUndef}, user_id : {JNum("1"), JUndef}]
Ingredient(id, day) == [user_ingredient_id |-> id, expiration_date |-> day]
IngredientLists == {<<>>, <<Ingredient("i1", 1)>>}
Item(label, count) == [label |-> label, count |-> count]
StatsSamples ==
    {[category_distribution |-> <<Item("c1", 1)>>,
      expiration_status |-> <<Item("s1", 1), Item("s2", 0)>>,
      location_distribution |-> <<Item("l1", 1)>>]}
StoredTokens == {JNull, JStr("t1")}
StoredUserIds == {JNull, JStr("1")}
ChartTypes == {"category", "expiration", "location"}
\* What a call is made with besides its endpoint: the ingredient of a delete,
\* the chart of a chart analysis, the body of a recommendation or meal plan.
Arg(id, chart, days, a, p) ==
    [id |-> id, chart |-> chart, days |-> days, allergies |-> a, preferences |-> p]
NoArg == Arg("", "", 0, <<>>, <<>>)

\* ------------------------------------------------------- free-text parsing
Whitespace == {" "}

\* String.prototype.split(','): the pieces between the commas, left to right;
\* the empty string gives one empty piece.
RECURSIVE SplitFrom(_, _, _)
SplitFrom(s, i, cur) ==
    IF i > Len(s) THEN <<cur>>
    ELSE IF s[i] = "," THEN <<cur>> \o SplitFrom(s, i + 1, <<>>)
    ELSE SplitFrom(s, i + 1, Append(cur, s[i]))
Split(s) == SplitFrom(s, 1, <<>>)

RECURSIVE TrimStart(_)
TrimStart(s) == IF s # <<>> /\ Head(s) \in Whitespace THEN TrimStart(Tail(s)) ELSE s
RECURSIVE TrimEnd(_)
TrimEnd(s) == IF s # <<>> /\ s[Len(s)] \in Whitespace
              THEN TrimEnd(SubSeq(s, 1, Len(s) - 1)) ELSE s

\* A trim of the leading whitespace only.
TrimLeading(s) == TrimStart(s)

\* String.prototype.trim()
Trim(s) == TrimEnd(TrimStart(s))

\* .map(s => s.trim())
RECURSIVE MapTrim(_)
MapTrim(l) == IF l = <<>> THEN <<>> ELSE <<Trim(Head(l))>> \o MapTrim(Tail(l))

\* .filter(Boolean): the empty string is the only falsy string.
RECURSIVE FilterBoolean(_)
FilterBoolean(l) ==
    IF l = <<>> THEN <<>>
    ELSE IF Head(l) # <<>> THEN <<Head(l)>> \o FilterBoolean(Tail(l))
    ELSE FilterBoolean(Tail(l))

\* x.split(',').map(s => s.trim()).filter(Boolean)
ParseList(x) == FilterBoolean(MapTrim(Split(x)))

RecommendBody(a, p) == Arg("", "", 0, ParseList(a), ParseList(p))
MealPlanBody(days, p) == Arg("", "", days, <<>>, ParseList(p))

\* ------------------------------------------------------------ client: Init
\* The component after its first render: the state hooks have read
\* localStorage and the effect of the first render is still to run.
getItem(ls, k) == ls[k]

Init ==
    /\ \E j \in StoredTokens, u \in StoredUserIds :
           localStorage = [k \in {"jwtToken", "userId"} |->
                              IF k = "jwtToken" THEN j ELSE u]
    /\ isLoggedIn = FALSE
    /\ token = Or(getItem(localStorage, "jwtToken"), JStr(""))
    /\ userId = Or(getItem(localStorage, "userId"), JStr(""))
    /\ message = <<>>
    /\ currentView = "login"
    /\ ingredients = <<>>
    /\ recommendedRecipes = ""
    /\ allergies = <<>>
    /\ preferences = <<>>
    /\ isLoading = FALSE
    /\ dashboardStats = <<>>
    /\ inflight = EmptyBag
    /\ effectPending = TRUE
    /\ effectAct = Mount
    /\ uncaught = FALSE
    /\ now = 0
    /\ rendered = <<>>
    /\ db = [t \in Tables |-> {}]

others == <<formVars, renderVars, rlsVars>>

\* Whether a handler that turned the queue q0 into q1 went through callApi:
\* each call clears the message and raises the loading flag.
Called(q0, q1) == BagCardinality(q1) > BagCardinality(q0)

fetchUserIngredients(q, tok, act) ==
    IF ~Truthy(tok) THEN q ELSE callApi(q, "fetchUserIngredients", tok, act, NoArg)

fetchDashboardStats(q, tok, act) == callApi(q, "fetchDashboardStats", tok, act, NoArg)

\* The effect with dependencies [token, userId] runs after the render in
\* which either changed, before the next event is handled.
Deps(t, u) == <<t, u>>

\* The effect testing the token alone.
LoginEffectTokenOnly ==
    /\ effectPending
    /\ effectPending' = FALSE
    /\ IF Truthy(token)
       THEN LET q == fetchDashboardStats(fetchUserIngredients(inflight, token, effectAct),
                                         token, effectAct)
            IN /\ isLoggedIn' = TRUE
               /\ currentView' = "dashboard"
               /\ inflight' = q
               /\ message' = <<>>
               /\ isLoading' = TRUE
       ELSE UNCHANGED <<isLoggedIn, currentView, inflight, message, isLoading>>
    /\ UNCHANGED <<localStorage, token, userId, ingredients, recommendedRecipes,
                   dashboardStats, effectAct, uncaught, others>>

\* useEffect(() => {...}, [token, userId])
LoginEffect ==
    /\ effectPending
    /\ effectPending' = FALSE
    /\ IF Truthy(token) /\ Truthy(userId)
       THEN LET q == fetchDashboardStats(fetchUserIngredients(inflight, token, effectAct),
                                         token, effectAct)
            IN /\ isLoggedIn' = TRUE
               /\ currentView' = "dashboard"
               /\ inflight' = q
               /\ message' = <<>>
               /\ isLoading' = TRUE
       ELSE UNCHANGED <<isLoggedIn, currentView, inflight, message, isLoading>>
    /\ UNCHANGED <<localStorage, token, userId, ingredients, recommendedRecipes,
                   dashboardStats, effectAct, uncaught, others>>

\* setItem writing every value under the token's key.
setItemOneKey(ls, k, v) == [ls EXCEPT !["jwtToken"] = JsString(v)]

\* localStorage.setItem(k, v)
setItem(ls, k, v) == [ls EXCEPT ![k] = JsString(v)]

\* The key kept with an empty value.
removeItemEmpty(ls, k) == [ls EXCEPT ![k] = JStr("")]

\* localStorage.removeItem(k): getItem(k) is null afterwards.
removeItem(ls, k) == [ls EXCEPT ![k] = JNull]

\* ----------------------------------------------------- client: navigation
\* The links between the login and the register panel.
ShowRegister ==
    /\ ~effectPending
    /\ currentView = "login"
    /\ currentView' = "register"
    /\ UNCHANGED <<localStorage, isLoggedIn, token, userId, message, ingredients,
                   recommendedRecipes, isLoading, dashboardStats, inflight,
                   effectPending, effectAct, uncaught, others>>

ShowLogin ==
    /\ ~effectPending
    /\ currentView = "register"
    /\ currentView' = "login"
    /\ UNCHANGED <<localStorage, isLoggedIn, token, userId, message, ingredients,
                   recommendedRecipes, isLoading, dashboardStats, inflight,
                   effectPending, effectAct, uncaught, others>>

\* The buttons that only switch the panel: the header's "add ingredient" and
\* "recommend" buttons, the same two at the foot of the dashboard, and the
\* "back to dashboard" buttons of the two forms.
ShowPanel(v) ==
    /\ ~effectPending
    /\ \/ isLoggedIn /\ v \in {"addIngredient", "recommend"}
       \/ currentView = "dashboard" /\ v \in {"addIngredient", "recommend"}
       \/ currentView \in {"addIngredient", "recommend"} /\ v = "dashboard"
    /\ currentView' = v
    /\ UNCHANGED <<localStorage, isLoggedIn, token, userId, message, ingredients,
                   recommendedRecipes, isLoading, dashboardStats, inflight,
                   effectPending, effectAct, uncaught, others>>

\* The header's dashboard button.
DashboardNav ==
    /\ ~effectPending
    /\ isLoggedIn
    /\ Room
    /\ LET a == FreshAct
           q == fetchDashboardStats(fetchUserIngredients(inflight, token, a), token, a)
       IN /\ currentView' = "dashboard"
          /\ inflight' = q
          /\ message' = <<>>
          /\ isLoading' = TRUE
    /\ UNCHANGED <<localStorage, isLoggedIn, token, userId, ingredients,
                   recommendedRecipes, dashboardStats,
                   effectPending, effectAct, uncaught, others>>

handleLogout ==
    /\ ~effectPending
    /\ isLoggedIn
    /\ localStorage' = removeItem(removeItem(localStorage, "jwtToken"), "userId")
    /\ token' = JStr("")
    /\ userId' = JStr("")
    /\ isLoggedIn' = FALSE
    /\ message' = <<"logged out">>
    /\ currentView' = "login"
    /\ ingredients' = <<>>
    /\ recommendedRecipes' = ""
    /\ effectPending' = (Deps(token', userId') # Deps(token, userId))
    /\ effectAct' = Mount
    /\ UNCHANGED <<isLoading, dashboardStats, inflight, uncaught, others>>

\* -------------------------------------------- client: handlers up to await
\* Each handler runs to its "await callApi(...)": the call is issued with the
\* token of the current render.
Submit(op, arg) ==
    /\ ~effectPending
    /\ Room
    /\ inflight' = callApi(inflight, op, token, FreshAct, arg)
    /\ message' = <<>>
    /\ isLoading' = TRUE
    /\ UNCHANGED <<localStorage, isLoggedIn, token, userId, currentView,
                   ingredients, recommendedRecipes, dashboardStats,
                   effectPending, effectAct, uncaught, renderVars, rlsVars>>

handleRegister ==
    /\ currentView = "register" /\ ~isLoading
    /\ Submit("handleRegister", NoArg)
    /\ UNCHANGED formVars

handleLogin ==
    /\ currentView = "login" /\ ~isLoading
    /\ Submit("handleLogin", NoArg)
    /\ UNCHANGED formVars

handleAddIngredient ==
    /\ currentView = "addIngredient" /\ ~isLoading
    /\ Submit("handleAddIngredient", NoArg)
    /\ UNCHANGED formVars

\* window.confirm answers yes or no; on no the handler does nothing.
handleDeleteIngredient(k, confirm) ==
    /\ currentView = "dashboard"
    /\ k \in DOMAIN ingredients
    /\ IF confirm
       THEN Submit("handleDeleteIngredient",
                   Arg(ingredients[k].user_ingredient_id, "", 0, <<>>, <<>>))
       ELSE /\ ~effectPending
            /\ UNCHANGED <<clientVars, renderVars, rlsVars>>
    /\ UNCHANGED formVars

handleRecommendRecipes ==
    /\ currentView = "recommend" /\ ~isLoading
    /\ Submit("handleRecommendRecipes", RecommendBody(allergies, preferences))
    /\ UNCHANGED formVars

handleSmartSuggestions ==
    /\ currentView = "dashboard" /\ ~isLoading
    /\ Submit("handleSmartSuggestions", NoArg)
    /\ UNCHANGED formVars

generateChartAnalysis(chartType) ==
    /\ currentView = "dashboard" /\ ~isLoading /\ dashboardStats # <<>>
    /\ Submit("generateChartAnalysis", Arg("", chartType, 0, <<>>, <<>>))
    /\ UNCHANGED formVars

analyzeNutrition ==
    /\ currentView = "dashboard" /\ ~isLoading
    /\ Submit("analyzeNutrition", NoArg)
    /\ UNCHANGED formVars

generateMealPlan ==
    /\ currentView = "dashboard" /\ ~isLoading
    /\ Submit("generateMealPlan", MealPlanBody(7, preferences))
    /\ UNCHANGED formVars

analyzePrices ==
    /\ currentView = "dashboard" /\ ~isLoading
    /\ Submit("analyzePrices", NoArg)
    /\ UNCHANGED formVars

\* ------------------------------------------- client: a call that has failed
\* fetch rejected, the response was not ok, or its body did not parse: the
\* try block throws, the catch block sets the message and returns null, the
\* finally block lowers the loading flag, and the handler that awaited the
\* call skips its "if (data)" body.
CallFails(r, f) ==
    /\ ~effectPending
    /\ BagIn(r, inflight)
    /\ LET c == Catch(Thrown(f))
       IN /\ message' = c.message
          /\ uncaught' = (uncaught \/ c.threw)
    /\ isLoading' = FALSE
    /\ inflight' = AfterFailure(inflight, r)
    /\ UNCHANGED <<localStorage, isLoggedIn, token, userId, currentView,
                   ingredients, recommendedRecipes, dashboardStats,
                   effectPending, effectAct, others>>

\* The login handler testing the body alone: a body without a token is
\* stored as a session.
CallReturnsNothingUntested(r) ==
    /\ ~effectPending
    /\ BagIn(r, inflight)
    /\ isLoading' = FALSE
    /\ inflight' = Remove(inflight, r)
    /\ IF r.op = "handleLogin"
       THEN /\ localStorage' = setItem(setItem(localStorage, "jwtToken", JUndef),
                                       "userId", JUndef)
            /\ token' = JUndef
            /\ userId' = JUndef
            /\ isLoggedIn' = TRUE
            /\ currentView' = "dashboard"
            /\ message' = <<"login success">>
       ELSE UNCHANGED <<localStorage, token, userId, isLoggedIn, currentView, message>>
    /\ UNCHANGED <<ingredients, recommendedRecipes, dashboardStats,
                   effectPending, effectAct, uncaught, others>>

\* A response that is ok and whose body parses to the field the handler
\* tests being absent or falsy (or to a falsy value altogether): callApi
\* returns it, no message is set, and the handler skips its "if" body.
\* handleRegister, handleAddIngredient and handleDeleteIngredient test the
\* body alone, the others test a field of it.
CallReturnsNothing(r) ==
    /\ ~effectPending
    /\ BagIn(r, inflight)
    /\ isLoading' = FALSE
    /\ inflight' = Remove(inflight, r)
    /\ UNCHANGED <<localStorage, isLoggedIn, token, userId, message, currentView,
                   ingredients, recommendedRecipes, dashboardStats,
                   effectPending, effectAct, uncaught, others>>

\* ------------------------------------ client: handlers after a call returned
Awaiting(r, op) ==
    /\ ~effectPending
    /\ BagIn(r, inflight)
    /\ r.op = op

handleRegisterResume(r) ==
    /\ Awaiting(r, "handleRegister")
    /\ inflight' = Remove(inflight, r)
    /\ isLoading' = FALSE
    /\ message' = <<"registered, now log in">>
    /\ currentView' = "login"
    /\ UNCHANGED <<localStorage, isLoggedIn, token, userId,
                   ingredients, recommendedRecipes, dashboardStats,
                   effectPending, effectAct, uncaught, others>>

\* The login refreshing the statistics as well.
LoginRefreshBoth(q, r) ==
    fetchDashboardStats(fetchUserIngredients(q, r.tok, r.act), r.tok, r.act)

\* The requests in flight after handleLogin has stored the session: the list
\* refresh it calls runs in the closure of the render that submitted the form.
LoginRefresh(q, r) == fetchUserIngredients(q, r.tok, r.act)

handleLoginResume(r, data) ==
    /\ Awaiting(r, "handleLogin")
    /\ data \in LoginData
    /\ Truthy(data.token)
    /\ LET q0 == Remove(inflight, r)
           q1 == LoginRefresh(q0, r)
       IN /\ localStorage' = setItem(setItem(localStorage, "jwtToken", data.token),
                                     "userId", data.user_id)
          /\ token' = data.token
          /\ userId' = data.user_id
          /\ isLoggedIn' = TRUE
          /\ currentView' = "dashboard"
          /\ inflight' = q1
          /\ message' = IF Called(q0, q1) THEN <<>> ELSE <<"login success">>
          /\ isLoading' = Called(q0, q1)
          /\ effectPending' = (Deps(token', userId') # Deps(token, userId))
          /\ effectAct' = r.act
    /\ UNCHANGED <<ingredients, recommendedRecipes, dashboardStats, uncaught, others>>

fetchUserIngredientsResume(r, list) ==
    /\ Awaiting(r, "fetchUserIngredients")
    /\ list \in IngredientLists
    /\ inflight' = Remove(inflight, r)
    /\ isLoading' = FALSE
    /\ ingredients' = list
    /\ UNCHANGED <<localStorage, isLoggedIn, token, userId, message, currentView,
                   recommendedRecipes, dashboardStats,
                   effectPending, effectAct, uncaught, others>>

fetchDashboardStatsResume(r, stats) ==
    /\ Awaiting(r, "fetchDashboardStats")
    /\ stats \in StatsSamples
    /\ inflight' = Remove(inflight, r)
    /\ isLoading' = FALSE
    /\ dashboardStats' = <<stats>>
    /\ UNCHANGED <<localStorage, isLoggedIn, token, userId, message, currentView,
                   ingredients, recommendedRecipes,
                   effectPending, effectAct, uncaught, others>>

\* The two refreshes after an ingredient was added or deleted; each goes
\* through callApi, which clears the success message set just before.
Refresh(q, r) == fetchDashboardStats(fetchUserIngredients(q, r.tok, r.act), r.tok, r.act)

handleAddIngredientResume(r) ==
    /\ Awaiting(r, "handleAddIngredient")
    /\ inflight' = Refresh(Remove(inflight, r), r)
    /\ message' = <<>>
    /\ isLoading' = TRUE
    /\ currentView' = "dashboard"
    /\ UNCHANGED <<localStorage, isLoggedIn, token, userId,
                   ingredients, recommendedRecipes, dashboardStats,
                   effectPending, effectAct, uncaught, others>>

handleDeleteIngredientResume(r) ==
    /\ Awaiting(r, "handleDeleteIngredient")
    /\ inflight' = Refresh(Remove(inflight, r), r)
    /\ message' = <<>>
    /\ isLoading' = TRUE
    /\ UNCHANGED <<localStorage, isLoggedIn, token, userId, currentView,
                   ingredients, recommendedRecipes, dashboardStats,
                   effectPending, effectAct, uncaught, others>>

handleRecommendRecipesResume(r) ==
    /\ Awaiting(r, "handleRecommendRecipes")
    /\ inflight' = Remove(inflight, r)
    /\ isLoading' = FALSE
    /\ recommendedRecipes' = "recommended_recipes_text"
    /\ message' = <<"GPT recommended recipes">>
    /\ UNCHANGED <<localStorage, isLoggedIn, token, userId, currentView,
                   ingredients, dashboardStats,
                   effectPending, effectAct, uncaught, others>>

handleSmartSuggestionsResume(r) ==
    /\ Awaiting(r, "handleSmartSuggestions")
    /\ inflight' = Remove(inflight, r)
    /\ isLoading' = FALSE
    /\ message' = <<"analysed ", "current_ingredients", " ingredients">>
    /\ UNCHANGED <<localStorage, isLoggedIn, token, userId, currentView,
                   ingredients, recommendedRecipes, dashboardStats,
                   effectPending, effectAct, uncaught, others>>

generateChartAnalysisResume(r) ==
    /\ Awaiting(r, "generateChartAnalysis")
    /\ inflight' = Remove(inflight, r)
    /\ isLoading' = FALSE
    /\ message' = <<"chart_title", " analysis done">>
    /\ UNCHANGED <<localStorage, isLoggedIn, token, userId, currentView,
                   ingredients, recommendedRecipes, dashboardStats,
                   effectPending, effectAct, uncaught, others>>

analyzeNutritionResume(r) ==
    /\ Awaiting(r, "analyzeNutrition")
    /\ inflight' = Remove(inflight, r)
    /\ isLoading' = FALSE
    /\ message' = <<"nutrition analysis done">>
    /\ UNCHANGED <<localStorage, isLoggedIn, token, userId, currentView,
                   ingredients, recommendedRecipes, dashboardStats,
                   effectPending, effectAct, uncaught, others>>

generateMealPlanResume(r) ==
    /\ Awaiting(r, "generateMealPlan")
    /\ inflight' = Remove(inflight, r)
    /\ isLoading' = FALSE
    /\ message' = <<"7", "-day meal plan generated">>
    /\ UNCHANGED <<localStorage, isLoggedIn, token, userId, currentView,
                   ingredients, recommendedRecipes, dashboardStats,
                   effectPending, effectAct, uncaught, others>>

analyzePricesResume(r) ==
    /\ Awaiting(r, "analyzePrices")
    /\ inflight' = Remove(inflight, r)
    /\ isLoading' = FALSE
    /\ message' = <<"price analysis done">>
    /\ UNCHANGED <<localStorage, isLoggedIn, token, userId, currentView,
                   ingredients, recommendedRecipes, dashboardStats,
                   effectPending, effectAct, uncaught, others>>

\* --------------------------------------------------- client: specification
Next ==
    \/ LoginEffect
    \/ ShowRegister
    \/ ShowLogin
    \/ \E v \in Views : ShowPanel(v)
    \/ DashboardNav
    \/ handleLogout
    \/ handleRegister
    \/ handleLogin
    \/ handleAddIngredient
    \/ \E k \in 1..MaxItems, confirm \in BOOLEAN : handleDeleteIngredient(k, confirm)
    \/ handleRecommendRecipes
    \/ handleSmartSuggestions
    \/ \E chartType \in ChartTypes : generateChartAnalysis(chartType)
    \/ analyzeNutrition
    \/ generateMealPlan
    \/ analyzePrices
    \/ \E r \in BagToSet(inflight), f \in FailKinds : CallFails(r, f)
    \/ \E r \in BagToSet(inflight) : CallReturnsNothing(r)
    \/ \E r \in BagToSet(inflight) : handleRegisterResume(r)
    \/ \E r \in BagToSet(inflight), data \in LoginData : handleLoginResume(r, data)
    \/ \E r \in BagToSet(inflight), list \in IngredientLists : fetchUserIngredientsResume(r, list)
    \/ \E r \in BagToSet(inflight), stats \in StatsSamples : fetchDashboardStatsResume(r, stats)
    \/ \E r \in BagToSet(inflight) : handleAddIngredientResume(r)
    \/ \E r \in BagToSet(inflight) : handleDeleteIngredientResume(r)
    \/ \E r \in BagToSet(inflight) : handleRecommendRecipesResume(r)
    \/ \E r \in BagToSet(inflight) : handleSmartSuggestionsResume(r)
    \/ \E r \in BagToSet(inflight) : generateChartAnalysisResume(r)
    \/ \E r \in BagToSet(inflight) : analyzeNutritionResume(r)
    \/ \E r \in BagToSet(inflight) : generateMealPlanResume(r)
    \/ \E r \in BagToSet(inflight) : analyzePricesResume(r)

Spec == Init /\ [][Next]_vars

\* ---------------------------------------------------------------- ParseSpec
\* The free-text fields as typed, over a letter, a blank and a comma; the
\* two handlers that parse them are the ones of Spec.
Chars == {"a", " ", ","}
RECURSIVE Strings(_)
Strings(n) == IF n = 0 THEN {<<>>}
              ELSE Strings(n - 1) \cup {Append(s, c) : s \in {x \in Strings(n - 1) : Len(x) = n - 1}, c \in Chars}

\* A session restored from localStorage whose effect has run and whose two
\* refreshes have settled.
LoggedInIdle(view) ==
    /\ localStorage = [k \in {"jwtToken", "userId"} |->
                          IF k = "jwtToken" THEN JStr("t1") ELSE JStr("1")]
    /\ isLoggedIn = TRUE
    /\ token = JStr("t1")
    /\ userId = JStr("1")
    /\ message = <<>>
    /\ currentView = view
    /\ recommendedRecipes = ""
    /\ isLoading = FALSE
    /\ inflight = EmptyBag
    /\ effectPending = FALSE
    /\ effectAct = Mount
    /\ uncaught = FALSE

ParseInit ==
    /\ LoggedInIdle("recommend")
    /\ ingredients = <<>>
    /\ dashboardStats = <<>>
    /\ allergies \in Strings(MaxLen)
    /\ preferences \in Strings(MaxLen)
    /\ Len(allergies) + Len(preferences) <= MaxLen
    /\ now = 0
    /\ rendered = <<>>
    /\ db = [t \in Tables |-> {}]

ParseNext ==
    \/ handleRecommendRecipes
    \/ generateMealPlan
    \/ \E v \in Views : ShowPanel(v)

ParseSpec == ParseInit /\ [][ParseNext]_vars

\* --------------------------------------------------------------- RenderSpec
\* JavaScript numbers as far as the render uses them: an integer or NaN.
Number(v) == [nan |-> FALSE, v |-> v]
NaN == [nan |-> TRUE, v |-> 0]

\* a < b on numbers: false as soon as one side is NaN.
LessThan(a, b) == ~a.nan /\ ~b.nan /\ a.v < b.v

\* An expiration date is the day it names, counted from 1970-01-01, or
\* InvalidDate for a text that is no date.
MsPerDay == 24 * 60 * 60 * 1000
InvalidDate == 0 - 1
Dates == {InvalidDate} \cup 0..MaxDay

\* new Date(text).getTime(): a date-only text is midnight UTC of its day,
\* anything unparsable the invalid date, whose time value is NaN.
newDate(d) == IF d = InvalidDate THEN NaN ELSE Number(d * MsPerDay)

\* The comparison with the end of the day instead of its start.
ExpirationClassEndOfDay(ing, t) ==
    IF LessThan(IF newDate(ing.expiration_date).nan THEN NaN
                ELSE Number(newDate(ing.expiration_date).v + MsPerDay - 1),
                Number(t))
    THEN "text-red-500 font-semibold" ELSE "text-green-600"

\* className of the expiration date of an ingredient card at the instant t.
ExpirationClass(ing, t) ==
    IF LessThan(newDate(ing.expiration_date), Number(t))
    THEN "text-red-500 font-semibold" ELSE "text-green-600"

\* dist.reduce((sum, x) => sum + x.count, 0)
RECURSIVE Total(_)
Total(dist) == IF dist = <<>> THEN 0 ELSE Head(dist).count + Total(Tail(dist))

\* ((count / total) * 100).toFixed(1): the tenths of a percent, rounded to
\* the nearest; 0 / 0 is NaN and n / 0 is Infinity, which toFixed prints so.
Percentage(count, total) ==
    IF total = 0
    THEN [text |-> IF count = 0 THEN "NaN" ELSE "Infinity", tenths |-> 0]
    ELSE [text |-> "number", tenths |-> (count * 2000 + total) \div (2 * total)]

Chart(dist) == [k \in DOMAIN dist |-> Percentage(dist[k].count, Total(dist))]

\* The dashboard panel as far as it is computed: the three charts (only when
\* dashboardStats is set) and the class of each ingredient card.
renderDashboard ==
    /\ currentView = "dashboard"
    /\ rendered' =
         <<[at |-> now,
            category |-> IF dashboardStats = <<>> THEN <<>>
                         ELSE Chart(dashboardStats[1].category_distribution),
            expiration |-> IF dashboardStats = <<>> THEN <<>>
                           ELSE Chart(dashboardStats[1].expiration_status),
            location |-> IF dashboardStats = <<>> THEN <<>>
                         ELSE Chart(dashboardStats[1].location_distribution),
            classes |-> [k \in DOMAIN ingredients |-> ExpirationClass(ingredients[k], now)]]>>
    /\ UNCHANGED <<clientVars, formVars, now, rlsVars>>

\* The instants the clock is read at: the start of a day, the millisecond
\* after it and the last millisecond of the day.
Instants == {d * MsPerDay + o : d \in 0..MaxDay, o \in {0, 1, MsPerDay - 1}}

\* The non-empty distributions the backend answers with.
RECURSIVE Dists(_)
Dists(n) == IF n = 0 THEN {<<>>}
            ELSE Dists(n - 1) \cup
                 {Append(d, Item("x", c)) : d \in {x \in Dists(n - 1) : Len(x) = n - 1},
                                            c \in 0..MaxCount}
RECURSIVE Cards(_)
Cards(n) == IF n = 0 THEN {<<>>}
            ELSE Cards(n - 1) \cup
                 {Append(l, Ingredient("i", d)) : l \in {x \in Cards(n - 1) : Len(x) = n - 1},
                                                  d \in Dates}
OneItem == <<Item("x", 1)>>

RenderInit ==
    /\ LoggedInIdle("dashboard")
    /\ ingredients \in Cards(MaxItems)
    /\ \E which \in ChartTypes, d \in Dists(MaxItems) \ {<<>>} :
          dashboardStats =
             <<[category_distribution |-> IF which = "category" THEN d ELSE OneItem,
                expiration_status |-> IF which = "expiration" THEN d ELSE OneItem,
                location_distribution |-> IF which = "location" THEN d ELSE OneItem]>>
    /\ allergies = <<>>
    /\ preferences = <<>>
    /\ now \in Instants
    /\ rendered = <<>>
    /\ db = [t \in Tables |-> {}]

RenderNext == renderDashboard

RenderSpec == RenderInit /\ [][RenderNext]_vars

\* ------------------------------------------------------------------ RlsSpec
\* auth.uid() of a statement: a user, or null (written 0) without a session.
Uids == 1..NumUsers
NullUid == 0

\* a = b in SQL is true only when neither side is null.
SqlEq(a, b) == a # NullUid /\ b # NullUid /\ a = b

\* A policy whose expression lets every row through.
PolicyExprTrue(uid, row) == TRUE

\* The expression of every policy of the schema: auth.uid() = user_id.
PolicyExpr(uid, row) == SqlEq(uid, row.user_id)

\* CREATE POLICY ... ON table FOR cmd [USING (expr)] [WITH CHECK (expr)]
Policy(table, cmd, using, check) ==
    [table |-> table, cmd |-> cmd, using |-> using, check |-> check]
Policies ==
    {Policy("profiles", "SELECT", TRUE, FALSE),
     Policy("profiles", "INSERT", FALSE, TRUE),
     Policy("profiles", "UPDATE", TRUE, FALSE),
     Policy("ingredients", "ALL", TRUE, FALSE),
     Policy("recipes", "ALL", TRUE, FALSE),
     Policy("meal_plans", "ALL", TRUE, FALSE),
     Policy("shopping_list", "ALL", TRUE, FALSE)}

\* ALTER TABLE ... ENABLE ROW LEVEL SECURITY: with it a statement reaches a
\* row only through a policy for its command (or FOR ALL).
RlsEnabled == {"profiles", "ingredients", "recipes", "meal_plans", "shopping_list"}
Applicable(t, cmd) == {p \in Policies : p.table = t /\ p.cmd \in {cmd, "ALL"}}

\* The rows an existing-row command (SELECT, UPDATE, DELETE) reaches.
UsingPasses(uid, t, cmd, row) ==
    t \in RlsEnabled => \E p \in Applicable(t, cmd) : p.using /\ PolicyExpr(uid, row)

\* The rows a writing command (INSERT, UPDATE) may leave behind: WITH CHECK,
\* and the USING expression where a policy has no WITH CHECK.
CheckPasses(uid, t, cmd, row) ==
    t \in RlsEnabled =>
        \E p \in Applicable(t, cmd) : (p.check \/ p.using) /\ PolicyExpr(uid, row)

Visible(uid, t, cmd) == {row \in db[t] : UsingPasses(uid, t, cmd, row)}
RowCount == Cardinality(UNION {{<<t, row>> : row \in db[t]} : t \in Tables})
FreshId(t) == CHOOSE i \in 1..MaxRows : \A row \in db[t] : row.id # i
Row(id, owner) == [id |-> id, user_id |-> owner]

RlsInit ==
    /\ \E j \in {JNull}, u \in {JNull} :
           localStorage = [k \in {"jwtToken", "userId"} |->
                              IF k = "jwtToken" THEN j ELSE u]
    /\ isLoggedIn = FALSE
    /\ token = JStr("")
    /\ userId = JStr("")
    /\ message = <<>>
    /\ currentView = "login"
    /\ ingredients = <<>>
    /\ recommendedRecipes = ""
    /\ allergies = <<>>
    /\ preferences = <<>>
    /\ isLoading = FALSE
    /\ dashboardStats = <<>>
    /\ inflight = EmptyBag
    /\ effectPending = FALSE
    /\ effectAct = Mount
    /\ uncaught = FALSE
    /\ now = 0
    /\ rendered = <<>>
    /\ db = [t \in Tables |-> {}]

\* SELECT * FROM t: the rows the statement returns.
Select(uid, t) == Visible(uid, t, "SELECT")

\* INSERT INTO t (user_id) VALUES (owner): the rows of t after the
\* statement, which is refused when the new row fails the check.
InsertRows(uid, t, owner) ==
    LET new == Row(FreshId(t), owner)
    IN IF CheckPasses(uid, t, "INSERT", new) THEN db[t] \cup {new} ELSE db[t]

\* user_id is UNIQUE in profiles.
InsertAllowed(t, owner) ==
    /\ RowCount < MaxRows
    /\ t = "profiles" => \A row \in db[t] : row.user_id # owner

Insert(uid, t, owner) ==
    /\ InsertAllowed(t, owner)
    /\ db' = [db EXCEPT ![t] = InsertRows(uid, t, owner)]
    /\ UNCHANGED <<clientVars, formVars, renderVars>>

\* UPDATE t SET user_id = owner: the rows of t after the statement, which
\* applies to the rows the command reaches and is refused as a whole when a
\* new row fails the check.
UpdateRows(uid, t, owner) ==
    LET old == Visible(uid, t, "UPDATE")
        new == {[row EXCEPT !.user_id = owner] : row \in old}
    IN IF \A row \in new : CheckPasses(uid, t, "UPDATE", row)
       THEN (db[t] \ old) \cup new
       ELSE db[t]

UpdateAllowed(uid, t, owner) ==
    t = "profiles" => /\ Cardinality(Visible(uid, t, "UPDATE")) <= 1
                      /\ \A row \in db[t] \ Visible(uid, t, "UPDATE") :
                             row.user_id # owner

Update(uid, t, owner) ==
    /\ UpdateAllowed(uid, t, owner)
    /\ db' = [db EXCEPT ![t] = UpdateRows(uid, t, owner)]
    /\ UNCHANGED <<clientVars, formVars, renderVars>>

\* DELETE FROM t: the rows of t after the statement.
DeleteRows(uid, t) == db[t] \ Visible(uid, t, "DELETE")

Delete(uid, t) ==
    /\ db' = [db EXCEPT ![t] = DeleteRows(uid, t)]
    /\ UNCHANGED <<clientVars, formVars, renderVars>>

RlsNext ==
    \/ \E uid \in Uids, t \in Tables, owner \in Uids \cup {NullUid} :
           Insert(uid, t, owner)
    \/ \E uid \in Uids, t \in Tables, owner \in Uids \cup {NullUid} :
           Update(uid, t, owner)
    \/ \E uid \in Uids, t \in Tables : Delete(uid, t)

RlsSpec == RlsInit /\ [][RlsNext]_vars

\* The client with its environment's guarantees: a scheduled effect runs and
\* every fetch settles.
Settle ==
    \E r \in BagToSet(inflight) :
        \/ \E f \in FailKinds : CallFails(r, f)
        \/ CallReturnsNothing(r)

FairSpec == Spec /\ WF_vars(LoginEffect) /\ WF_vars(Settle)

\* The client with one login more than the bound on outstanding actions
\* admits: the login button is enabled whenever isLoading is false, which any
\* call's finally block brings about, so that a login can be submitted while
\* an earlier login is still awaited.
AgainAct == CHOOSE a \in 1..(MaxActs + 1) :
                /\ a \notin ActsOf(inflight)
                /\ \A b \in 1..(a - 1) : b \in ActsOf(inflight)

handleLoginAgain ==
    /\ currentView = "login" /\ ~isLoading
    /\ ~effectPending
    /\ Cardinality(ActsOf(inflight)) = MaxActs
    /\ inflight' = callApi(inflight, "handleLogin", token, AgainAct, NoArg)
    /\ message' = <<>>
    /\ isLoading' = TRUE
    /\ UNCHANGED <<localStorage, isLoggedIn, token, userId, currentView,
                   ingredients, recommendedRecipes, dashboardStats,
                   effectPending, effectAct, uncaught, others>>

OverlapNext == Next \/ handleLoginAgain

OverlapSpec == Init /\ [][OverlapNext]_vars

OverlapFairSpec == OverlapSpec /\ WF_vars(LoginEffect) /\ WF_vars(Settle)

\* The component from its first render on while the user does nothing: the
\* effect of the first render runs and the calls it made settle. What
\* localStorage holds was left there by earlier visits: nothing, an empty
\* string, a token, and for userId the string of a user_id or of undefined.
MountTokens == {JNull, JStr("")} \cup Tokens
MountUserIds == {JNull, JStr(""), JsString(JNum("1")), JsString(JUndef)}

MountInit ==
    /\ \E j \in MountTokens, u \in MountUserIds :
           localStorage = [k \in {"jwtToken", "userId"} |->
                              IF k = "jwtToken" THEN j ELSE u]
    /\ isLoggedIn = FALSE
    /\ token = Or(getItem(localStorage, "jwtToken"), JStr(""))
    /\ userId = Or(getItem(localStorage, "userId"), JStr(""))
    /\ message = <<>>
    /\ currentView = "login"
    /\ ingredients = <<>>
    /\ recommendedRecipes = ""
    /\ allergies = <<>>
    /\ preferences = <<>>
    /\ isLoading = FALSE
    /\ dashboardStats = <<>>
    /\ inflight = EmptyBag
    /\ effectPending = TRUE
    /\ effectAct = Mount
    /\ uncaught = FALSE
    /\ now = 0
    /\ rendered = <<>>
    /\ db = [t \in Tables |-> {}]

MountNext ==
    \/ LoginEffect
    \/ \E r \in BagToSet(inflight), f \in FailKinds : CallFails(r, f)
    \/ \E r \in BagToSet(inflight) : CallReturnsNothing(r)
    \/ \E r \in BagToSet(inflight), list \in IngredientLists : fetchUserIngredientsResume(r, list)
    \/ \E r \in BagToSet(inflight), stats \in StatsSamples : fetchDashboardStatsResume(r, stats)

MountSpec == MountInit /\ [][MountNext]_vars

\* ================================================================== claims
\* The number of requests in flight that action a has caused.
RECURSIVE CopiesOver(_, _)
CopiesOver(q, S) ==
    IF S = {} THEN 0
    ELSE LET r == CHOOSE x \in S : TRUE
         IN CopiesIn(r, q) + CopiesOver(q, S \ {r})
Outstanding(a) == CopiesOver(inflight, {r \in BagToSet(inflight) : r.act = a})
OutstandingOf(a, op) ==
    CopiesOver(inflight, {r \in BagToSet(inflight) : r.act = a /\ r.op = op})

\* C1 as stated: no action (the mount included) ever has two callApi
\* requests in flight at the same time.
C1_OneRequestPerAction == \A a \in ActsOf(inflight) : Outstanding(a) <= 1

\* C1 as amended: an action has at most three requests in flight; when it has
\* more than one they are all refreshes, at most two GET /user_ingredients
\* (the one a login calls itself and the one of the effect) and at most one
\* GET /dashboard-stats.
C1_AtMostThreeRefreshes ==
    \A a \in ActsOf(inflight) :
        /\ Outstanding(a) <= 3
        /\ Outstanding(a) >= 2 =>
              /\ \A r \in BagToSet(inflight) :
                     r.act = a => r.op \in {"fetchUserIngredients", "fetchDashboardStats"}
              /\ OutstandingOf(a, "fetchUserIngredients") <= 2
              /\ OutstandingOf(a, "fetchDashboardStats") <= 1

\* A login has its own list refresh and the effect's two refreshes in flight.
C1_ThreeInFlight ==
    \E a \in ActsOf(inflight) : a # Mount /\ Outstanding(a) = 3

\* C2: whenever a call fails (fetch rejects, the response is not ok, or the
\* body does not parse) the catch block sets a message that starts with the
\* error prefix, callApi returns null so that the handler changes nothing
\* else, and no exception leaves callApi.
C2_FailureIsCaught ==
    [][\A r \in BagToSet(inflight), f \in FailKinds :
          CallFails(r, f) =>
              /\ StartsWithError(message')
              /\ Catch(Thrown(f)).ret = JNull
              /\ ~uncaught'
              /\ ~isLoading'
              /\ UNCHANGED <<localStorage, isLoggedIn, token, userId, currentView,
                             ingredients, recommendedRecipes, dashboardStats>>]_vars

\* A call has failed and its error message is on display.
C2_ErrorShown == StartsWithError(message) /\ ~isLoading /\ ~uncaught

\* C3: under the policies, in every state the database reaches, a statement
\* user A can issue neither returns, changes nor removes a row whose user_id
\* is another user's (or null), and leaves behind no new or changed row with
\* a user_id other than A: every query result and every write is scoped to
\* the rows with user_id = auth.uid().
Touched(before, after) == (before \ after) \cup (after \ before)
C3_RowsAreOwnOnly ==
    \A uid \in Uids, t \in Tables :
        /\ \A row \in Select(uid, t) : row.user_id = uid
        /\ \A row \in Touched(db[t], DeleteRows(uid, t)) : row.user_id = uid
        /\ \A owner \in Uids \cup {NullUid} :
               /\ UpdateAllowed(uid, t, owner) =>
                      \A row \in Touched(db[t], UpdateRows(uid, t, owner)) :
                          row.user_id = uid
               /\ InsertAllowed(t, owner) =>
                      \A row \in Touched(db[t], InsertRows(uid, t, owner)) :
                          row.user_id = uid

\* Two users have a row each in one table and the first sees only its own.
C3_TwoOwners ==
    \E t \in Tables :
        /\ \E r1, r2 \in db[t] : r1.user_id = 1 /\ r2.user_id = 2
        /\ Select(1, t) # {}
        /\ Select(1, t) # db[t]

\* C4: when a login call returns a body with a truthy token, the token and
\* the user_id are stored in localStorage (as strings) under jwtToken and
\* userId and in the state, isLoggedIn is true and the view is the dashboard.
C4_LoginStoresSession ==
    [][\A r \in BagToSet(inflight), data \in LoginData :
          handleLoginResume(r, data) =>
              /\ getItem(localStorage', "jwtToken") = JsString(data.token)
              /\ getItem(localStorage', "userId") = JsString(data.user_id)
              /\ token' = data.token
              /\ userId' = data.user_id
              /\ isLoggedIn'
              /\ currentView' = "dashboard"]_vars

\* A login has just succeeded: the session is stored and the dashboard shown.
C4_LoggedIn ==
    /\ message = <<"login success">>
    /\ isLoggedIn
    /\ currentView = "dashboard"
    /\ Truthy(token)
    /\ getItem(localStorage, "jwtToken") = JsString(token)
    /\ getItem(localStorage, "userId") = JsString(userId)

\* C5: currentView is always one of the five views, so renderView returns a
\* panel and never the null of its default branch.
C5_ViewIsRendered ==
    /\ currentView \in {"login", "register", "dashboard", "addIngredient", "recommend"}
    /\ renderView(currentView) # "null"

\* The register panel is on display.
C5_RegisterShown == currentView = "register" /\ renderView(currentView) = "register panel"

\* The lists of pieces the claim describes, computed from the positions of
\* the commas: a piece lies between two neighbouring bounds (a comma, the
\* start or the end), reaches from its first to its last character that is
\* no whitespace, and is left out when it has none.
PieceBounds(s) == {0, Len(s) + 1} \cup {i \in 1..Len(s) : s[i] = ","}
NextBound(s, a) == CHOOSE b \in PieceBounds(s) :
                      b > a /\ \A c \in PieceBounds(s) : c > a => b <= c
Inked(s, a) == {i \in (a + 1)..(NextBound(s, a) - 1) : s[i] # " "}
PieceStarts(s) == {a \in PieceBounds(s) \ {Len(s) + 1} : Inked(s, a) # {}}
PieceAt(s, a) ==
    SubSeq(s, CHOOSE i \in Inked(s, a) : \A j \in Inked(s, a) : i <= j,
              CHOOSE i \in Inked(s, a) : \A j \in Inked(s, a) : i >= j)
Pieces(s) ==
    [k \in 1..Cardinality(PieceStarts(s)) |->
        PieceAt(s, CHOOSE a \in PieceStarts(s) :
                       Cardinality({b \in PieceStarts(s) : b < a}) = k - 1)]
Blank(s) == \A i \in 1..Len(s) : s[i] \in {" ", ","}

\* C6: the allergies and preferences lists of a /recommend_recipes body and
\* the preferences list of a /generate-meal-plan body are the comma-separated
\* pieces of the typed text, each trimmed, the empty ones dropped, in the
\* order typed; a text of nothing but blanks and commas gives the empty list.
C6_ListsAreTrimmedPieces ==
    \A r \in BagToSet(inflight) :
        /\ r.op = "handleRecommendRecipes" =>
              /\ r.arg.allergies = Pieces(allergies)
              /\ r.arg.preferences = Pieces(preferences)
              /\ Blank(allergies) => r.arg.allergies = <<>>
              /\ Blank(preferences) => r.arg.preferences = <<>>
        /\ r.op = "generateMealPlan" =>
              /\ r.arg.preferences = Pieces(preferences)
              /\ Blank(preferences) => r.arg.preferences = <<>>

\* A recommendation is in flight whose allergies text had two pieces, one of
\* them with a trailing blank.
C6_TwoPiecesSent ==
    \E r \in BagToSet(inflight) :
        /\ r.op = "handleRecommendRecipes"
        /\ allergies = <<"a", " ", ",", "a">>
        /\ r.arg.allergies = << <<"a">>, <<"a">> >>

\* C7: an ingredient's expiration date is rendered in the expired style
\* exactly when the date, taken as midnight (UTC) of its day, is strictly
\* before the instant of the render; a date that is today's is therefore
\* expired from the first millisecond after that midnight.
Expired(k) == rendered[1].classes[k] = "text-red-500 font-semibold"
C7_ExpiredIffBeforeNow ==
    rendered # <<>> =>
        \A k \in DOMAIN ingredients :
            LET d == ingredients[k].expiration_date
                at == rendered[1].at
            IN /\ Expired(k) <=> (d # InvalidDate /\ d * MsPerDay < at)
               /\ d = at \div MsPerDay => (Expired(k) <=> at % MsPerDay > 0)

\* An ingredient that expires on the day of the render is shown as expired.
C7_TodayShownExpired ==
    /\ rendered # <<>>
    /\ \E k \in DOMAIN ingredients :
           /\ ingredients[k].expiration_date = rendered[1].at \div MsPerDay
           /\ Expired(k)

\* C8 as stated: every percentage of the three charts is a number, the
\* item's count over the sum of the counts times 100 (to one decimal), for
\* every non-empty distribution, one of all-zero counts included.
IsPercentOf(p, count, total) ==
    /\ p.text = "number"
    /\ total > 0
    /\ 2 * (p.tenths * total - count * 1000) <= total
    /\ 2 * (count * 1000 - p.tenths * total) <= total
ChartIsPercent(chart, dist) ==
    \A k \in DOMAIN dist : IsPercentOf(chart[k], dist[k].count, Total(dist))
C8_PercentagesAreNumbers ==
    rendered # <<>> =>
        /\ ChartIsPercent(rendered[1].category, dashboardStats[1].category_distribution)
        /\ ChartIsPercent(rendered[1].expiration, dashboardStats[1].expiration_status)
        /\ ChartIsPercent(rendered[1].location, dashboardStats[1].location_distribution)

\* C9: a failed call is not issued again: the step in which it fails takes
\* exactly that request out of flight and adds none.
C9_NoRetry ==
    [][\A r \in BagToSet(inflight), f \in FailKinds :
          CallFails(r, f) =>
              /\ inflight' = inflight (-) SetToBag({r})
              /\ BagCardinality(inflight') = BagCardinality(inflight) - 1]_vars

\* A call has failed and nothing is in flight after it.
C9_FailedAndQuiet == StartsWithError(message) /\ inflight = EmptyBag

\* C10 as stated: an action that updates an existing ingredient can happen.
IsUpdate(r) == Method(r) \in {"PUT", "PATCH"}
ListRequestWith(q, tok) ==
    \E r \in BagToSet(q) :
        /\ r.op = "fetchUserIngredients"
        /\ Method(r) = "GET"
        /\ Authorization(r) = <<"Bearer ", tok[2]>>
C11_ListFetchedWithNewToken ==
    /\ [][/\ \A r \in BagToSet(inflight), data \in LoginData :
                (handleLoginResume(r, data) /\ Truthy(data.user_id)) =>
                    \/ ListRequestWith(inflight', data.token)
                    \/ effectPending' /\ token' = data.token /\ Truthy(userId')
          /\ (effectPending /\ Truthy(token) /\ Truthy(userId) /\ ~effectPending') =>
                ListRequestWith(inflight', token)
          /\ \A r \in BagToSet(inflight), list \in IngredientLists :
                fetchUserIngredientsResume(r, list) => ingredients' = list]_vars
    /\ (effectPending /\ Truthy(token) /\ Truthy(userId)) ~> ListRequestWith(inflight, token)

\* C12: when a login call fails, or returns a body without a truthy token,
\* the handler leaves the authentication state as it was: localStorage is
\* not written, token and userId keep their values, isLoggedIn keeps its
\* value (false stays false) and currentView is not changed.
Logins(q) == {r \in BagToSet(q) : r.op = "handleLogin"}
C12_FailedLoginKeepsSession ==
    [][\A r \in Logins(inflight) :
          ((\E f \in FailKinds : CallFails(r, f)) \/ CallReturnsNothing(r)) =>
              /\ localStorage' = localStorage
              /\ token' = token
              /\ userId' = userId
              /\ isLoggedIn' = isLoggedIn
              /\ ~isLoggedIn => ~isLoggedIn'
              /\ currentView' = currentView]_vars

\* A login has failed on a page that was opened with a stored token and no
\* stored userId: the token is still in the state and nobody is logged in.
C12_FailedLoginShown ==
    /\ StartsWithError(message) /\ ~isLoading /\ inflight = EmptyBag
    /\ currentView = "login" /\ ~isLoggedIn
    /\ Truthy(token) /\ getItem(localStorage, "jwtToken") = token
    /\ getItem(localStorage, "userId") = JNull

\* C13: the effect of the first render, when localStorage holds a non-empty
\* jwtToken and a non-empty userId, sets isLoggedIn, shows the dashboard and
\* requests the ingredient list and the dashboard statistics with the stored
\* token; when either is missing or empty the component stays on the login
\* view, logged out, and no request is ever issued.
StoredSession ==
    /\ Truthy(getItem(localStorage, "jwtToken"))
    /\ Truthy(getItem(localStorage, "userId"))
MountRequests ==
    SetToBag({Request(op, getItem(localStorage, "jwtToken"), Mount, NoArg) :
                 op \in {"fetchUserIngredients", "fetchDashboardStats"}})
C13_MountRestoresSession ==
    [][/\ LoginEffect =>
             IF StoredSession
             THEN /\ isLoggedIn'
                  /\ currentView' = "dashboard"
                  /\ inflight' = MountRequests
                  /\ \A r \in BagToSet(inflight') :
                         /\ Method(r) = "GET"
                         /\ Endpoint(r) \in {<<"/user_ingredients">>, <<"/dashboard-stats">>}
             ELSE inflight' = EmptyBag
       /\ ~StoredSession =>
             /\ ~isLoggedIn /\ ~isLoggedIn'
             /\ currentView = "login" /\ currentView' = "login"
             /\ inflight = EmptyBag /\ inflight' = EmptyBag]_vars

\* The page was opened with a stored session and the dashboard is up, the
\* list answered and the statistics still awaited.
C13_SessionRestored ==
    /\ StoredSession /\ isLoggedIn /\ currentView = "dashboard"
    /\ ingredients # <<>>
    /\ \E r \in BagToSet(inflight) : r.op = "fetchDashboardStats" /\ r.act = Mount

\* C14: right after handleLogout neither jwtToken nor userId is in
\* localStorage, token and userId are the empty string, isLoggedIn is false,
\* the view is the login view, ingredients is the empty list and
\* recommendedRecipes is empty; the effect the change of token and userId
\* schedules changes none of these.
LoggedOut ==
    /\ getItem(localStorage, "jwtToken") = JNull
    /\ getItem(localStorage, "userId") = JNull
    /\ token = JStr("")
    /\ userId = JStr("")
    /\ ~isLoggedIn
    /\ currentView = "login"
    /\ ingredients = <<>>
    /\ recommendedRecipes = ""
C14_LogoutClearsSession ==
    [][/\ handleLogout => LoggedOut'
       /\ (LoggedOut /\ LoginEffect) => LoggedOut']_vars

\* The user has logged out while the refreshes of the dashboard were still
\* awaited.
C14_LoggedOutWhileAwaiting ==
    /\ LoggedOut
    /\ message = <<"logged out">>
    /\ inflight # EmptyBag

====
